---- MODULE Spec2Model ----
(***************************************************************************)
(* Retirement projection calculator (src/scripts/app.js).                  *)
(*                                                                         *)
(* JavaScript Numbers that carry money or rates are modelled as fixed      *)
(* point decimals: an integer count of 1/Scale, every product and quotient *)
(* rounded to the nearest unit.  Profile fields (ages, years, whole dollar *)
(* amounts, whole percentages) are kept as the integers the UI parses.     *)
(* Text (input values) is a sequence of one-character strings, so parsing  *)
(* and printing are computed, not assumed.                                 *)
(***************************************************************************)
EXTENDS Integers, Sequences, FiniteSets, TLC

VARIABLES
    clock,          \* the calendar year new Date().getFullYear() returns now
    groupSep,       \* thousands separator of the browser locale
    heap,           \* FinancialProfile objects, by object identity
    appRef,         \* App.profile: identity of the object it refers to
    uiRef,          \* UIManager.profile: identity, 0 for null
    inputs,         \* value of each rendered <input>, as text
    listening,      \* the rendered inputs carry the 'input' listener
    timerPending,   \* debounceTimer is armed
    handler,        \* event handler (or direct call) being served
    pc,             \* position inside the handler
    currentYear,    \* project(): const currentYear
    yearOffset,     \* project(): loop counter
    portfolioValue, \* project(): running balance
    results,        \* project(): const results
    added,          \* history: per iteration, whether line 95 ran
    error,          \* message of the Error thrown by validate()
    alertMsg,       \* text of the last alert() shown
    displayed,      \* summary cards and chart currently on the page
    edits,          \* number of field edits made so far
    formatted       \* argument and result of a direct formatCurrency call

vars == <<clock, groupSep, heap, appRef, uiRef, inputs, listening, timerPending,
          handler, pc, currentYear, yearOffset, portfolioValue, results, added,
          error, alertMsg, displayed, edits, formatted>>

(***************************************************************************)
(* Bounds of the model.                                                    *)
(***************************************************************************)
StartYear == 2029
MaxTicks == 1
MaxSpan == 3
MaxEdits == 2

(***************************************************************************)
(* Numbers.                                                                *)
(***************************************************************************)
Scale == 100

Num(n) == n * Scale

\* n / d rounded to the nearest integer, halves upwards (d > 0)
RoundDiv(n, d) == IF 2 * (n % d) >= d THEN (n \div d) + 1 ELSE n \div d

\* a * b / d rounded to the nearest integer, without forming a * b
MulDiv(a, b, d) ==
    LET qa == a \div d
        ra == a % d
        qb == b \div d
        rb == b % d
    IN  qa * b + ra * qb + RoundDiv(ra * rb, d)

Mul(a, b) == MulDiv(a, b, Scale)

Div(a, b) == MulDiv(a, Scale, b)

RECURSIVE Pow(_, _)
Pow(x, k) == IF k = 0 THEN Num(1) ELSE Mul(Pow(x, k - 1), x)

MathRound(x) == RoundDiv(x, Scale)

(***************************************************************************)
(* CONFIG                                                                  *)
(***************************************************************************)
WITHDRAWAL_RATE == Div(Num(4), Num(100))

DEFAULT_PROFILE ==
    [ currentAge        |-> 47,
      retirementAge     |-> 67,
      currentSavings    |-> 0,
      monthlyInvestment |-> 250,
      investmentReturn  |-> 7,
      windfallAmount    |-> 10000,
      windfallEndYear   |-> 2030,
      rent              |-> 1200,
      otherExpenses     |-> 800,
      expenseInflation  |-> 3 ]

\* new FinancialProfile(data): a field by field copy
FinancialProfile(data) ==
    [ currentAge        |-> data.currentAge,
      retirementAge     |-> data.retirementAge,
      currentSavings    |-> data.currentSavings,
      monthlyInvestment |-> data.monthlyInvestment,
      investmentReturn  |-> data.investmentReturn,
      windfallAmount    |-> data.windfallAmount,
      windfallEndYear   |-> data.windfallEndYear,
      rent              |-> data.rent,
      otherExpenses     |-> data.otherExpenses,
      expenseInflation  |-> data.expenseInflation ]

(***************************************************************************)
(* FinancialProfile                                                        *)
(***************************************************************************)
NoError == "none"
MsgTimeline == "Retirement age must be greater than current age"
MsgReturn == "Investment return must be between 0% and 50%"
MsgWindfall == "Windfall amount cannot be negative"

\* validate() with the return-rate test placed first
ValidateSwapped(p) ==
    [ error |-> IF p.investmentReturn < 0 \/ p.investmentReturn > 50 THEN MsgReturn
                ELSE IF p.currentAge >= p.retirementAge THEN MsgTimeline
                ELSE IF p.windfallAmount < 0 THEN MsgWindfall
                ELSE NoError,
      self  |-> p ]

\* validate() without the windfall test
ValidateLax(p) ==
    [ error |-> IF p.currentAge >= p.retirementAge THEN MsgTimeline
                ELSE IF p.investmentReturn < 0 \/ p.investmentReturn > 50 THEN MsgReturn
                ELSE NoError,
      self  |-> p ]

\* validate(): the Error message thrown (NoError when it returns true) and the
\* receiver as the call leaves it
Validate(p) ==
    [ error |-> IF p.currentAge >= p.retirementAge THEN MsgTimeline
                ELSE IF p.investmentReturn < 0 \/ p.investmentReturn > 50 THEN MsgReturn
                ELSE IF p.windfallAmount < 0 THEN MsgWindfall
                ELSE NoError,
      self  |-> p ]

\* hasWindfallInYear with <= in the age test
HasWindfallInclusive(p, targetYear, now) ==
    LET yearsFromNow == targetYear - now
        ageAtYear == p.currentAge + yearsFromNow
    IN  /\ ageAtYear <= p.retirementAge
        /\ targetYear <= p.windfallEndYear
        /\ p.windfallAmount > 0

\* hasWindfallInYear(targetYear), with the year the clock shows when it is called
HasWindfallInYear(p, targetYear, now) ==
    LET yearsFromNow == targetYear - now
        ageAtYear == p.currentAge + yearsFromNow
    IN  /\ ageAtYear < p.retirementAge
        /\ targetYear <= p.windfallEndYear
        /\ p.windfallAmount > 0

(***************************************************************************)
(* CalculationEngine.project, statement by statement                       *)
(***************************************************************************)
YearsToProject(p) == p.retirementAge - p.currentAge

\* the loop condition with < for <=
LoopExclusive(offset, p) == offset < YearsToProject(p)

\* the for loop's condition
LoopContinues(offset, p) == offset <= YearsToProject(p)

\* lines 88 and 91 in the other order
ContributeThenGrow(value, p) ==
    Mul(value + Num(p.monthlyInvestment) * 12,
        Num(1) + Div(Num(p.investmentReturn), Num(100)))

\* lines 88 and 91: growth of the existing balance, then the year's contributions
GrowAndContribute(value, p) ==
    Mul(value, Num(1) + Div(Num(p.investmentReturn), Num(100)))
        + Num(p.monthlyInvestment) * 12

\* lines 94-96
AddWindfall(value, p, applies) ==
    IF applies THEN value + Num(p.windfallAmount) ELSE value

InflationFactor(p, offset) ==
    Pow(Num(1) + Div(Num(p.expenseInflation), Num(100)), offset)

\* the object pushed onto results
YearlyResult(p, year0, offset, value, flag) ==
    LET futureMonthlyRent == Mul(Num(p.rent), InflationFactor(p, offset))
        futureOtherMonthly == Mul(Num(p.otherExpenses), InflationFactor(p, offset))
    IN  [ year                 |-> year0 + offset,
          age                  |-> p.currentAge + offset,
          portfolio            |-> value,
          futureRent           |-> futureMonthlyRent,
          futureOther          |-> futureOtherMonthly,
          totalMonthlyExpenses |-> futureMonthlyRent + futureOtherMonthly,
          receivedWindfall     |-> flag ]

CalculateSafeWithdrawal(finalPortfolioValue) ==
    LET annualWithdrawal == Mul(finalPortfolioValue, WITHDRAWAL_RATE)
        monthlyWithdrawal == Div(annualWithdrawal, Num(12))
    IN  MathRound(monthlyWithdrawal)

(***************************************************************************)
(* Text                                                                    *)
(***************************************************************************)
DigitChar(d) ==
    CASE d = 0 -> "0" [] d = 1 -> "1" [] d = 2 -> "2" [] d = 3 -> "3" [] d = 4 -> "4"
      [] d = 5 -> "5" [] d = 6 -> "6" [] d = 7 -> "7" [] d = 8 -> "8" [] d = 9 -> "9"

IsDigit(c) == c \in {"0", "1", "2", "3", "4", "5", "6", "7", "8", "9"}

DigitValue(c) == CHOOSE d \in 0..9 : DigitChar(d) = c

\* decimal digits of n >= 0 as a string
RECURSIVE IntStr(_)
IntStr(n) == IF n < 10 THEN DigitChar(n) ELSE IntStr(n \div 10) \o DigitChar(n % 10)

\* the decimal digits of n >= 0, at least width of them
RECURSIVE Padded(_, _)
Padded(n, width) ==
    IF width <= 1 THEN IntStr(n) ELSE Padded(n \div 10, width - 1) \o DigitChar(n % 10)

RECURSIVE Pow10(_)
Pow10(k) == IF k = 0 THEN 1 ELSE 10 * Pow10(k - 1)

\* (value / divisor).toFixed(digits), value >= 0, divisor a power of ten
ToFixed(value, divisor, digits) ==
    LET unit == (divisor \div Pow10(digits)) * Scale
        scaled == RoundDiv(value, unit)
    IN  IntStr(scaled \div Pow10(digits)) \o "." \o Padded(scaled % Pow10(digits), digits)

\* n.toLocaleString() of an integer n >= 0, in a locale grouping by thousands
RECURSIVE ToLocaleString(_, _)
ToLocaleString(n, sep) ==
    IF n < 1000 THEN IntStr(n)
    ELSE ToLocaleString(n \div 1000, sep) \o sep \o Padded(n % 1000, 3)

Dollars(value) == value \div Scale

\* formatCurrency with the compact form starting at 1000
FormatCurrencyLowThreshold(value, sep) ==
    IF Dollars(value) >= 1000000000 THEN "$" \o ToFixed(value, 1000000000, 2) \o "B"
    ELSE IF Dollars(value) >= 1000000 THEN "$" \o ToFixed(value, 1000000, 2) \o "M"
    ELSE IF Dollars(value) >= 1000 THEN "$" \o ToFixed(value, 1000, 1) \o "k"
    ELSE "$" \o ToLocaleString(MathRound(value), sep)

\* CalculationEngine.formatCurrency (value >= 0)
FormatCurrency(value, sep) ==
    IF Dollars(value) >= 1000000000 THEN "$" \o ToFixed(value, 1000000000, 2) \o "B"
    ELSE IF Dollars(value) >= 1000000 THEN "$" \o ToFixed(value, 1000000, 2) \o "M"
    ELSE IF Dollars(value) >= 10000 THEN "$" \o ToFixed(value, 1000, 1) \o "k"
    ELSE "$" \o ToLocaleString(MathRound(value), sep)

\* `${n}` for an integer n, as a sequence of characters
RECURSIVE DigitsOf(_)
DigitsOf(n) == IF n < 10 THEN <<DigitChar(n)>> ELSE Append(DigitsOf(n \div 10), DigitChar(n % 10))

ToText(n) == IF n < 0 THEN <<"-">> \o DigitsOf(-n) ELSE DigitsOf(n)

\* String.prototype.trim
RECURSIVE Trim(_)
Trim(t) ==
    IF t = <<>> THEN t
    ELSE IF Head(t) = " " THEN Trim(Tail(t))
    ELSE IF t[Len(t)] = " " THEN Trim(SubSeq(t, 1, Len(t) - 1))
    ELSE t

\* value of the longest prefix of decimal digits of t, acc being the value so far
RECURSIVE DigitsValue(_, _)
DigitsValue(t, acc) ==
    IF t = <<>> \/ ~IsDigit(Head(t)) THEN acc
    ELSE DigitsValue(Tail(t), 10 * acc + DigitValue(Head(t)))

NaN == [nan |-> TRUE, val |-> 0]

\* parseFloat, for texts without a fraction or an exponent
ParseFloat(text) ==
    LET t == Trim(text)
        negative == t # <<>> /\ Head(t) = "-"
        signed == t # <<>> /\ Head(t) \in {"-", "+"}
        body == IF signed THEN Tail(t) ELSE t
    IN  IF body = <<>> \/ ~IsDigit(Head(body)) THEN NaN
        ELSE [nan |-> FALSE,
              val |-> IF negative THEN -DigitsValue(body, 0) ELSE DigitsValue(body, 0)]

(***************************************************************************)
(* UIManager                                                               *)
(***************************************************************************)
InputIds == {"currentAge", "retirementAge", "monthlyInvestment", "investmentReturn",
             "windfallAmount", "windfallEndYear", "rent", "otherExpenses",
             "expenseInflation"}

NoInputs == [id \in InputIds |-> <<>>]

\* _renderInputs: the value attribute of every input
RenderInputs(p) == [id \in InputIds |-> ToText(p[id])]

\* reset() without the re-render
RerenderKeepsValues(p, old) == old

\* reset(): this.ui._renderInputs() replaces the inputs that were on the page
Rerender(p, old) == RenderInputs(p)

\* _getInputValue, given the element's value
GetInputValue(text, defaultValue) ==
    IF Trim(text) = <<>> THEN defaultValue
    ELSE IF ParseFloat(text).nan THEN defaultValue ELSE ParseFloat(text).val

\* _updateFromInputs: the profile after the nine assignments
UpdateFromInputs(p, values) ==
    [f \in DOMAIN p |-> IF f \in InputIds THEN GetInputValue(values[f], p[f]) ELSE p[f]]

NoDisplay ==
    [ cards |-> [portfolio |-> "", atAge |-> 0, income |-> "", expenses |-> ""],
      chart |-> [labels |-> <<>>, portfolio |-> <<>>, expenses |-> <<>>] ]

\* _updateChart: labels and the two datasets of the new Chart
UpdateChart(data) ==
    [ labels    |-> [i \in 1..Len(data) |-> "Age " \o IntStr(data[i].age)],
      portfolio |-> [i \in 1..Len(data) |-> data[i].portfolio],
      expenses  |-> [i \in 1..Len(data) |-> data[i].totalMonthlyExpenses * 12] ]

\* updateResults: what the page shows afterwards
UpdateResults(projectionData, profile, shown, sep) ==
    IF projectionData = <<>> THEN shown
    ELSE LET finalResult == projectionData[Len(projectionData)]
         IN  [ cards |->
                 [ portfolio |-> FormatCurrency(finalResult.portfolio, sep),
                   atAge     |-> profile.retirementAge,
                   income    |-> FormatCurrency(
                                    Num(CalculateSafeWithdrawal(finalResult.portfolio)), sep),
                   expenses  |-> FormatCurrency(finalResult.totalMonthlyExpenses, sep) ],
               chart |-> UpdateChart(projectionData) ]

(***************************************************************************)
(* State                                                                   *)
(***************************************************************************)
projectLocals == <<currentYear, yearOffset, portfolioValue, results, added>>
page == <<inputs, listening, timerPending, displayed, alertMsg, edits>>
objects == <<heap, appRef, uiRef>>

\* the window before DOMContentLoaded
Init ==
    /\ clock = StartYear
    /\ groupSep \in {",", "."}
    /\ heap = <<>>
    /\ appRef = 0
    /\ uiRef = 0
    /\ inputs = NoInputs
    /\ listening = FALSE
    /\ timerPending = FALSE
    /\ handler = "none"
    /\ pc = "unloaded"
    /\ currentYear = 0
    /\ yearOffset = 0
    /\ portfolioValue = 0
    /\ results = <<>>
    /\ added = <<>>
    /\ error = NoError
    /\ alertMsg = ""
    /\ displayed = NoDisplay
    /\ edits = 0
    /\ formatted = [arg |-> 0, text |-> ""]

\* the year turns
Tick ==
    /\ clock < StartYear + MaxTicks
    /\ clock' = clock + 1
    /\ UNCHANGED <<groupSep, objects, page, handler, pc, projectLocals, error, formatted>>

(***************************************************************************)
(* CalculationEngine.project(this.profile), called from App.calculate      *)
(***************************************************************************)
\* line 75, validate() throws
ProjectThrow ==
    /\ pc = "project"
    /\ Validate(heap[appRef]).error # NoError
    /\ heap' = [heap EXCEPT ![appRef] = Validate(heap[appRef]).self]
    /\ error' = Validate(heap[appRef]).error
    /\ pc' = "catch"
    /\ UNCHANGED <<clock, groupSep, appRef, uiRef, page, handler, projectLocals, formatted>>

\* lines 75-81
ProjectBegin ==
    /\ pc = "project"
    /\ Validate(heap[appRef]).error = NoError
    /\ heap' = [heap EXCEPT ![appRef] = Validate(heap[appRef]).self]
    /\ currentYear' = clock
    /\ portfolioValue' = Num(heap[appRef].currentSavings)
    /\ results' = <<>>
    /\ added' = <<>>
    /\ yearOffset' = 0
    /\ pc' = "loop"
    /\ UNCHANGED <<clock, groupSep, appRef, uiRef, page, handler, error, formatted>>

\* lines 83-96: one iteration up to the windfall
IterAdd ==
    /\ pc = "loop"
    /\ LoopContinues(yearOffset, heap[appRef])
    /\ LET profile == heap[appRef]
           currentSimulationYear == currentYear + yearOffset
           applies == HasWindfallInYear(profile, currentSimulationYear, clock)
       IN  /\ portfolioValue' =
                 AddWindfall(GrowAndContribute(portfolioValue, profile), profile, applies)
           /\ added' = Append(added, applies)
    /\ pc' = "push"
    /\ UNCHANGED <<clock, groupSep, objects, page, handler, currentYear, yearOffset,
                   results, error, formatted>>

\* lines 98-111 and the loop's increment
IterPush ==
    /\ pc = "push"
    /\ LET profile == heap[appRef]
           currentSimulationYear == currentYear + yearOffset
       IN  results' = Append(results,
                 YearlyResult(profile, currentYear, yearOffset, portfolioValue,
                              HasWindfallInYear(profile, currentSimulationYear, clock)))
    /\ yearOffset' = yearOffset + 1
    /\ pc' = "loop"
    /\ UNCHANGED <<clock, groupSep, objects, page, handler, currentYear, portfolioValue,
                   added, error, formatted>>

\* line 114, to a caller that keeps the sequence
ProjectReturn ==
    /\ pc = "loop"
    /\ ~LoopContinues(yearOffset, heap[appRef])
    /\ pc' = "returned"
    /\ UNCHANGED <<clock, groupSep, objects, page, handler, projectLocals, error, formatted>>

(***************************************************************************)
(* App                                                                     *)
(***************************************************************************)
\* calculate(): project returned, line 367
CalculateRender ==
    /\ pc = "loop"
    /\ ~LoopContinues(yearOffset, heap[appRef])
    /\ displayed' = UpdateResults(results, heap[appRef], displayed, groupSep)
    /\ pc' = "idle"
    /\ UNCHANGED <<clock, groupSep, objects, inputs, listening, timerPending, alertMsg,
                   edits, handler, projectLocals, error, formatted>>

\* calculate(): the catch block
CalculateCatch ==
    /\ pc = "catch"
    /\ alertMsg' = "Error: " \o error
    /\ pc' = "idle"
    /\ UNCHANGED <<clock, groupSep, objects, inputs, listening, timerPending, displayed,
                   edits, handler, projectLocals, error, formatted>>

\* DOMContentLoaded: new App(), init(), UIManager.initialize up to app.calculate()
DOMContentLoaded ==
    /\ pc = "unloaded"
    /\ LET appProfile == FinancialProfile(DEFAULT_PROFILE)
           uiProfile == FinancialProfile(DEFAULT_PROFILE)
           rendered == RenderInputs(uiProfile)
       IN  /\ heap' = <<appProfile, UpdateFromInputs(uiProfile, rendered)>>
           /\ appRef' = 1
           /\ uiRef' = 2
           /\ inputs' = rendered
    /\ listening' = TRUE
    /\ handler' = "load"
    /\ pc' = "project"
    /\ UNCHANGED <<clock, groupSep, timerPending, displayed, alertMsg, edits,
                   projectLocals, error, formatted>>

\* the user changes one field
EditChoices ==
    { <<"currentAge", <<>>>>, <<"currentAge", ToText(66)>>, <<"currentAge", ToText(67)>>,
      <<"retirementAge", ToText(49)>>,
      <<"investmentReturn", ToText(51)>>,
      <<"windfallAmount", ToText(-1)>>, <<"windfallAmount", ToText(0)>>,
      <<"windfallEndYear", ToText(StartYear)>>,
      <<"monthlyInvestment", ToText(500)>>,
      <<"rent", ToText(1500)>>, <<"otherExpenses", <<>>>>, <<"expenseInflation", ToText(0)>> }

EditInput(id, text) ==
    /\ pc = "idle"
    /\ edits < MaxEdits
    /\ inputs[id] # text
    /\ inputs' = [inputs EXCEPT ![id] = text]
    /\ timerPending' = (listening \/ timerPending)
    /\ edits' = edits + 1
    /\ UNCHANGED <<clock, groupSep, objects, listening, displayed, alertMsg, handler, pc,
                   projectLocals, error, formatted>>

\* click on #calculateBtn
ClickCalculate ==
    /\ pc = "idle"
    /\ heap' = [heap EXCEPT ![uiRef] = UpdateFromInputs(heap[uiRef], inputs)]
    /\ handler' = "click"
    /\ pc' = "project"
    /\ UNCHANGED <<clock, groupSep, appRef, uiRef, page, projectLocals, error, formatted>>

\* the debounce timeout elapses
DebounceFire ==
    /\ pc = "idle"
    /\ timerPending
    /\ timerPending' = FALSE
    /\ heap' = [heap EXCEPT ![uiRef] = UpdateFromInputs(heap[uiRef], inputs)]
    /\ handler' = "debounce"
    /\ pc' = "project"
    /\ UNCHANGED <<clock, groupSep, appRef, uiRef, inputs, listening, displayed, alertMsg,
                   edits, projectLocals, error, formatted>>

\* click on #resetBtn: App.reset up to this.calculate()
ClickReset ==
    /\ pc = "idle"
    /\ heap' = <<FinancialProfile(DEFAULT_PROFILE)>>
    /\ appRef' = 1
    /\ uiRef' = 1
    /\ inputs' = Rerender(heap'[1], inputs)
    /\ listening' = FALSE
    /\ handler' = "reset"
    /\ pc' = "project"
    /\ UNCHANGED <<clock, groupSep, timerPending, displayed, alertMsg, edits,
                   projectLocals, error, formatted>>

Next ==
    \/ Tick
    \/ DOMContentLoaded
    \/ \E c \in EditChoices : EditInput(c[1], c[2])
    \/ ClickCalculate
    \/ DebounceFire
    \/ ClickReset
    \/ ProjectThrow
    \/ ProjectBegin
    \/ IterAdd
    \/ IterPush
    \/ CalculateRender
    \/ CalculateCatch

Spec == Init /\ [][Next]_vars

(***************************************************************************)
(* The engine called directly: project() on one Profile, formatCurrency()  *)
(* on one amount.                                                          *)
(***************************************************************************)
Profiles ==
    [ currentAge        : {47, 48},
      retirementAge     : 47..(47 + MaxSpan),
      currentSavings    : {0, 1000},
      monthlyInvestment : {0, 250},
      investmentReturn  : {-1, 0, 7, 50, 51},
      windfallAmount    : {-500, 0, 10000},
      windfallEndYear   : {StartYear - 1, StartYear, StartYear + 1, StartYear + MaxSpan + 1},
      rent              : {1200},
      otherExpenses     : {800},
      expenseInflation  : {3} ]

Amounts ==
    { Num(0), Num(950), 99949, 99950, Num(9500), 949950, 999949, Num(10000), 1234567,
      Num(999999), Num(1000000), Num(12345678) }

InitEngine ==
    /\ clock = StartYear
    /\ groupSep \in {",", ".", " "}
    /\ \E p \in Profiles : heap = <<FinancialProfile(p)>>
    /\ appRef = 1
    /\ uiRef = 0
    /\ inputs = NoInputs
    /\ listening = FALSE
    /\ timerPending = FALSE
    /\ handler = "none"
    /\ pc = "idle"
    /\ currentYear = 0
    /\ yearOffset = 0
    /\ portfolioValue = 0
    /\ results = <<>>
    /\ added = <<>>
    /\ error = NoError
    /\ alertMsg = ""
    /\ displayed = NoDisplay
    /\ edits = 0
    /\ formatted = [arg |-> 0, text |-> ""]

CallProject ==
    /\ pc = "idle"
    /\ handler' = "direct"
    /\ pc' = "project"
    /\ UNCHANGED <<clock, groupSep, objects, page, projectLocals, error, formatted>>

CallFormatCurrency(value) ==
    /\ pc = "idle"
    /\ formatted' = [arg |-> value, text |-> FormatCurrency(value, groupSep)]
    /\ handler' = "direct"
    /\ pc' = "formatted"
    /\ UNCHANGED <<clock, groupSep, objects, page, projectLocals, error>>

NextEngine ==
    \/ Tick
    \/ CallProject
    \/ \E v \in Amounts : CallFormatCurrency(v)
    \/ ProjectThrow
    \/ ProjectBegin
    \/ IterAdd
    \/ IterPush
    \/ ProjectReturn

SpecEngine == InitEngine /\ [][NextEngine]_vars

(***************************************************************************)
(* Properties                                                              *)
(***************************************************************************)
Running == pc \in {"loop", "push", "returned"}

\* no year change since project() read the clock
SameYear == clock = currentYear

\* the validation rules as section 4.1 lists them
Rule1(p) == p.currentAge < p.retirementAge
Rule2(p) == 0 <= p.investmentReturn /\ p.investmentReturn <= 50
Rule3(p) == p.windfallAmount >= 0
Valid(p) == Rule1(p) /\ Rule2(p) /\ Rule3(p)
FirstViolated(p) ==
    IF ~Rule1(p) THEN MsgTimeline
    ELSE IF ~Rule2(p) THEN MsgReturn
    ELSE IF ~Rule3(p) THEN MsgWindfall
    ELSE NoError

\* the eligibility rule of section 4.2 with an explicit reference year
Eligible(p, referenceYear, Y) ==
    /\ (p.currentAge + (Y - referenceYear)) < p.retirementAge
    /\ Y <= p.windfallEndYear
    /\ p.windfallAmount > 0

\* p_k of section 4.3, p_(-1) = currentSavings
RECURSIVE PortfolioAt(_, _, _)
PortfolioAt(p, referenceYear, k) ==
    IF k < 0 THEN Num(p.currentSavings)
    ELSE Mul(PortfolioAt(p, referenceYear, k - 1),
             Num(1) + Div(Num(p.investmentReturn), Num(100)))
           + Num(p.monthlyInvestment) * 12
           + (IF Eligible(p, referenceYear, referenceYear + k)
                THEN Num(p.windfallAmount) ELSE 0)

\* C1: a projection of a valid Profile has retirementAge - currentAge + 1 entries,
\* the k-th (from 0) with age = currentAge + k and year = referenceYear + k, the
\* reference year being the year project() read.
C1_LengthAndAges ==
    LET p == heap[appRef]
    IN  /\ Running =>
              /\ Len(results) <= p.retirementAge - p.currentAge + 1
              /\ \A i \in 1..Len(results) :
                    /\ results[i].age = p.currentAge + (i - 1)
                    /\ results[i].year = currentYear + (i - 1)
        /\ pc = "returned" => Len(results) = p.retirementAge - p.currentAge + 1

C1_Witness ==
    /\ pc = "returned"
    /\ Len(results) = 4
    /\ results[4].age = heap[appRef].retirementAge
    /\ results[1].age = heap[appRef].currentAge

ExampleProfile(p) ==
    /\ p.currentAge = 47 /\ p.retirementAge = 48 /\ p.currentSavings = 0
    /\ p.monthlyInvestment = 250 /\ p.investmentReturn = 7 /\ p.windfallAmount = 0

\* C2: within one calendar year, entry k carries p_k = p_(k-1) * (1 + return/100)
\* + 12 * monthlyInvestment + (windfall if it applies in referenceYear + k); the
\* example Profile (47, 48, 0, 250, 7%, no windfall) yields 3000 and 6210.
C2_Portfolio ==
    LET p == heap[appRef]
    IN  /\ (Running /\ SameYear) =>
              \A i \in 1..Len(results) :
                 results[i].portfolio = PortfolioAt(p, currentYear, i - 1)
        /\ (pc = "returned" /\ ExampleProfile(p)) =>
              /\ Len(results) = 2
              /\ results[1].portfolio = Num(3000)
              /\ results[2].portfolio = Num(6210)

C2_Witness ==
    /\ pc = "returned"
    /\ SameYear
    /\ ExampleProfile(heap[appRef])
    /\ results[2].portfolio = Num(6210)

\* C3: within one calendar year, the flag of the entry of year Y is true exactly
\* when currentAge + (Y - referenceYear) < retirementAge, Y <= windfallEndYear and
\* windfallAmount > 0.
C3_WindfallFlag ==
    (Running /\ SameYear) =>
        \A i \in 1..Len(results) :
           results[i].receivedWindfall
              <=> Eligible(heap[appRef], currentYear, results[i].year)

C3_Witness ==
    /\ pc = "returned"
    /\ SameYear
    /\ Len(results) = 4
    /\ results[1].receivedWindfall
    /\ results[2].receivedWindfall
    /\ ~results[3].receivedWindfall
    /\ heap[appRef].windfallEndYear = results[2].year

\* C4: validate() fails with the message of the first violated rule in the order
\* timeline, return rate, windfall; it succeeds exactly when no rule is violated;
\* it leaves the Profile as it was.
C4_ValidateOrder ==
    [][ (pc = "project" /\ pc' # "project") =>
          /\ heap' = heap
          /\ IF Valid(heap[appRef])
               THEN pc' = "loop" /\ error' = error
               ELSE pc' = "catch" /\ error' = FirstViolated(heap[appRef]) ]_vars

C4_Witness ==
    /\ pc = "catch"
    /\ error = MsgTimeline
    /\ ~Rule2(heap[appRef])
    /\ ~Rule3(heap[appRef])

\* C8 as stated: formatCurrency(9500) is "$9.5k", formatCurrency(12345678) is
\* "$12.35M", formatCurrency(950) is "$950".
C8_AsStated ==
    pc = "formatted" =>
        /\ formatted.arg = Num(9500) => formatted.text = "$9.5k"
        /\ formatted.arg = Num(12345678) => formatted.text = "$12.35M"
        /\ formatted.arg = Num(950) => formatted.text = "$950"

\* C8 amended: formatCurrency(9500) is "$" and 9500 with the locale's thousands
\* separator ("$9,500" in en-US), the compact form starting at 10000;
\* formatCurrency(12345678) is "$12.35M", formatCurrency(950) is "$950".
C8_Format ==
    pc = "formatted" =>
        /\ formatted.arg = Num(9500) => formatted.text = "$9" \o groupSep \o "500"
        /\ formatted.arg = Num(10000) => formatted.text = "$10.0k"
        /\ formatted.arg = Num(12345678) => formatted.text = "$12.35M"
        /\ formatted.arg = Num(950) => formatted.text = "$950"

C8_Witness ==
    /\ pc = "formatted"
    /\ formatted.arg = Num(9500)
    /\ formatted.text = "$9,500"

\* C9: in every entry the receivedWindfall flag tells whether the windfall was
\* added to the portfolio in that iteration, whenever the clock advances.
C9_FlagIsStep3 ==
    Running => \A i \in 1..Len(results) : results[i].receivedWindfall = added[i]

\* C10: within one calendar year, the flagged entries are a prefix of the
\* sequence and the entry at retirementAge is never flagged.
C10_WindfallPrefix ==
    (Running /\ SameYear) =>
        /\ \A i, j \in 1..Len(results) :
              (i < j /\ ~results[i].receivedWindfall) => ~results[j].receivedWindfall
        /\ \A i \in 1..Len(results) :
              results[i].age = heap[appRef].retirementAge => ~results[i].receivedWindfall

C10_Witness ==
    /\ pc = "returned"
    /\ SameYear
    /\ Len(results) = 4
    /\ results[3].receivedWindfall
    /\ ~results[4].receivedWindfall
    /\ heap[appRef].windfallEndYear > results[4].year

\* the sequence section 4.3 defines for a reference year, offsets 0..k
RECURSIVE Projection(_, _, _)
Projection(p, referenceYear, k) ==
    IF k < 0 THEN <<>>
    ELSE Append(Projection(p, referenceYear, k - 1),
                YearlyResult(p, referenceYear, k, PortfolioAt(p, referenceYear, k),
                             Eligible(p, referenceYear, referenceYear + k)))

CalculateInProgress == pc \in {"project", "catch"} /\ handler # "none"

\* C5: when App.calculate runs with a Profile that fails validation, no
\* projection is produced, the message of the failure is shown, and the summary
\* cards and chart stay as they were before the call.
C5_FailedValidation ==
    [][ /\ (pc = "idle" /\ pc' = "project" /\ ~Valid(heap'[appRef'])) =>
              displayed' = displayed
        /\ (CalculateInProgress /\ ~Valid(heap[appRef])) =>
              /\ displayed' = displayed
              /\ results' = results
              /\ pc' \in {"project", "catch", "idle"}
              /\ (pc = "catch" /\ pc' = "idle") =>
                    alertMsg' = "Error: " \o FirstViolated(heap[appRef]) ]_vars

C5_Witness ==
    /\ pc = "idle"
    /\ handler = "debounce"
    /\ alertMsg = "Error: " \o MsgWindfall
    /\ ~Valid(heap[appRef])
    /\ displayed # NoDisplay

\* C6: a calculation started by the Calculate button or the debounce timer
\* projects a Profile whose editable fields hold what the input fields hold
\* (for every field that is non-empty and numeric).
C6_ProjectsInputs ==
    (pc = "project" /\ handler \in {"click", "debounce"}) =>
        \A id \in InputIds :
           (Trim(inputs[id]) # <<>> /\ ~ParseFloat(inputs[id]).nan) =>
               heap[appRef][id] = ParseFloat(inputs[id]).val

DefaultTexts ==
    [ currentAge        |-> <<"4", "7">>,
      retirementAge     |-> <<"6", "7">>,
      monthlyInvestment |-> <<"2", "5", "0">>,
      investmentReturn  |-> <<"7">>,
      windfallAmount    |-> <<"1", "0", "0", "0", "0">>,
      windfallEndYear   |-> <<"2", "0", "3", "0">>,
      rent              |-> <<"1", "2", "0", "0">>,
      otherExpenses     |-> <<"8", "0", "0">>,
      expenseInflation  |-> <<"3">> ]

\* C7: when App.reset completes, the Profile is the default configuration, the
\* input fields show the default values and the page shows the projection of
\* the default configuration for the year the calculation read.
C7_Reset ==
    [][ (handler = "reset" /\ pc # "idle" /\ pc' = "idle") =>
          /\ heap'[appRef'] = DEFAULT_PROFILE
          /\ heap'[uiRef'] = DEFAULT_PROFILE
          /\ inputs' = DefaultTexts
          /\ displayed' =
               UpdateResults(
                   Projection(DEFAULT_PROFILE, currentYear,
                              DEFAULT_PROFILE.retirementAge - DEFAULT_PROFILE.currentAge),
                   DEFAULT_PROFILE, NoDisplay, groupSep) ]_vars

C7_Witness ==
    /\ pc = "idle"
    /\ handler = "reset"
    /\ alertMsg # ""
    /\ edits > 0
    /\ inputs = DefaultTexts
    /\ displayed.cards.atAge = 67
    /\ Len(displayed.chart.labels) = 21

====
